---- MODULE Spec2Model ----
(***************************************************************************)
(* ExoStack hub: the task routes (exo_hub/routers/tasks.py), the node      *)
(* routes (exo_hub/routers/nodes.py) and the P2P handoff manager           *)
(* (exo_hub/services/p2p_handoff_manager.py), over the registry and the    *)
(* scheduler they call.                                                    *)
(*                                                                         *)
(* The routes and the handoff manager are translated from their code.  The *)
(* services they import (services/registry.py, services/scheduler.py) and  *)
(* the liveness monitor are not among the source files; their operations   *)
(* are modelled from sections 3 and 4 of the specification, each as the    *)
(* single call the routes make.                                            *)
(*                                                                         *)
(* A route is a sequence of registry calls.  Each call is atomic ("each    *)
(* atomic with respect to concurrent callers", section 4.1); the calls of  *)
(* different requests interleave ("parallel threads of execution", section *)
(* 5).  A route that makes one state-changing call is one action; a route  *)
(* that reads and then writes is two actions, with the request in flight   *)
(* kept in req between them.  Each agent has at most one request in flight *)
(* (the agent's main loop is sequential).  What a route answers is an      *)
(* operator of the state it runs in (..._reply); a request that is refused *)
(* changes nothing and is a stuttering step.                               *)
(*                                                                         *)
(* Beside the hub the module follows the agent process (exo_agent/agent.py *)
(* and utils.py), the handoff manager's initiate_handoff statement by      *)
(* statement, the heartbeat route against a clock, and the scheduler's     *)
(* ageing of stale tasks, each in a specification of its own.              *)
(***************************************************************************)
EXTENDS Integers, Sequences, FiniteSets, TLC

\* Bounds of the model: the tasks created and the requests the hub serves.
MaxTasks == 3
MaxOps == 4

\* Agent ids that are registered with the hub, and every id a caller may use.
Agents == {"a1", "a2"}
AgentIds == Agents \cup {"a3"}

None == "none"
Idle == [op |-> "idle", task |-> 0, result |-> None, owner |-> None]

\* Inputs.
Models == {"m-small", "m-large"}
DefaultModel == "m-small"
Priorities == {1, 5}
Results == {"x", "y"}
Errors == {"timeout", "model not found"}
PutStatuses == {"pending", "running", "completed"}

Terminal == {"completed", "failed", "cancelled"}
InFlight == {"assigned", "running"}

VARIABLES
    tasks,            \* registry: task id (1..Len) -> task record
    queue,            \* registry: the pending queue, a sequence of task ids
    nodes,            \* registry: agent id -> agent record
    silent,           \* agent id -> now - last_heartbeat > offline_threshold
    req,              \* agent id -> its request in flight (Idle when none)
    claimed,          \* task id -> agents whose claim took it since it was last queued
    succeeded,        \* task id -> which of cancel / complete returned success for it
    handoff_history,  \* P2PHandoffManager.handoff_history
    notifications,    \* agent id -> its handoff_notification:{agent_id} list
    delivery,         \* the last _notify_agent_handoff call: target, task, outcome
    agent_capabilities, \* P2PHandoffManager.agent_capabilities: agent id -> supported models
    recommendation,   \* the last evaluate_handoff_candidate call and what it returned
    node_calls,       \* agent id -> the node routes the hub has answered 200 for it
    ops,              \* the number of requests the hub has served
    now,              \* the hub's clock, in ticks
    heard,            \* agent id -> the last heartbeat the hub answered: when, and its timestamp
    active_handoffs,  \* P2PHandoffManager.active_handoffs: task id -> status of the handoff
    handoff_call,     \* the initiate_handoff call in progress and where it stands
    agent_loop,       \* exo_agent: main_loop's position and locals, and its last helper call
    drain             \* the check_pending_handoffs call in progress, and what was pushed and returned

\* The state of the handoff evaluator.
evaluator == <<agent_capabilities, recommendation>>

\* The handoff manager's call state.
manager == <<active_handoffs, handoff_call, drain>>

\* What the task routes, the sweep and the evaluator leave alone: the clock,
\* the heartbeats heard, the handoff manager's calls and the agent process.
aux == <<now, heard, manager, agent_loop>>

\* The state of the hub that the agent process does not touch.
hub == <<tasks, queue, nodes, silent, req, claimed, succeeded, handoff_history, notifications,
         delivery, evaluator, node_calls, ops, now, heard, manager>>

vars == <<tasks, queue, nodes, silent, req, claimed, succeeded, handoff_history, notifications,
          delivery, evaluator, node_calls, ops, aux>>

TaskIds == 1..MaxTasks

----------------------------------------------------------------------------
(* Registry and scheduler operations (modelled from the specification).       *)

\* registry.get_task / registry.get_node find a record or nothing.
TaskKnown(t) == t \in DOMAIN tasks

NodeKnown(a) == a \in DOMAIN nodes

\* Queue order: effective priority ascending (the priority, made more urgent
\* by the sweeps while the task is stale), then creation time, then id.  Ids
\* are issued in creation order, so the id stands for both.
Earlier(tt, t, u) ==
    \/ tt[t].effective_priority < tt[u].effective_priority
    \/ tt[t].effective_priority = tt[u].effective_priority /\ t < u

\* Mutant of Enqueue: first in, first out, whatever the priority.
EnqueueFifo(tt, q, t) == IF \E i \in 1..Len(q) : q[i] = t THEN q ELSE Append(q, t)

\* The pending queue is an ordered set: an id is in it at most once.
Enqueue(tt, q, t) ==
    IF \E i \in 1..Len(q) : q[i] = t
    THEN q
    ELSE LET k == Cardinality({i \in 1..Len(q) : Earlier(tt, q[i], t)})
         IN  SubSeq(q, 1, k) \o <<t>> \o SubSeq(q, k + 1, Len(q))

RECURSIVE EnqueueAll(_, _, _)
EnqueueAll(tt, q, S) ==
    IF S = {} THEN q
    ELSE LET t == CHOOSE x \in S : TRUE
         IN  EnqueueAll(tt, Enqueue(tt, q, t), S \ {t})

Dequeue(q, t) == SelectSeq(q, LAMBDA x : x # t)

Range(q) == {q[i] : i \in 1..Len(q)}

\* registry.get_pending_task(): pops the head of the pending queue.
get_pending_task(q) == IF q = <<>> THEN 0 ELSE Head(q)

QueueAfterPop(q) == IF q = <<>> THEN q ELSE Tail(q)

\* registry.update_task_status(task_id, status, node_id, result): a
\* transition of one task record.  It fails for an unknown task and for a
\* task in a terminal state; it writes the fields it is given.
UpdateAllowed(tt, t) == t \in DOMAIN tt /\ tt[t].status \notin Terminal

update_task_status(tt, t, status, node_id, result) ==
    IF UpdateAllowed(tt, t)
    THEN [tt EXCEPT ![t] = [@ EXCEPT !.status = status,
                                     !.node_id = IF node_id = None THEN @ ELSE node_id,
                                     !.result = IF result = None THEN @ ELSE result]]
    ELSE tt

\* Priority is clamped to [0, 9].
Clamp(p) == IF p < 0 THEN 0 ELSE IF p > 9 THEN 9 ELSE p

NewTask(m, p) ==
    [status |-> "pending", node_id |-> None, result |-> None, model |-> m,
     priority |-> Clamp(p), effective_priority |-> Clamp(p), attempt_count |-> 1]

\* scheduler.cancel_task: from pending, assigned or running only.
CancelAllowed(tt, t) == t \in DOMAIN tt /\ tt[t].status \in {"pending"} \cup InFlight

\* Retry policy: the attempt limit (default 3) and the agent-reported errors
\* the scheduler classifies as transient.
MaxAttempts == 3
Transient == {"timeout"}

\* Orphan reclamation of the tasks in S: back to pending, owner and result
\* cleared, attempt_count incremented.
Reclaim(tt, S) ==
    [t \in DOMAIN tt |->
        IF t \in S
        THEN [tt[t] EXCEPT !.status = "pending", !.node_id = None, !.result = None,
                           !.attempt_count = @ + 1]
        ELSE tt[t]]

\* The hub serves a request.
Served == ops < MaxOps /\ ops' = ops + 1

\* The timestamps a request may carry: any time up to now (0: before the hub
\* started).
Timestamps == 0..now

----------------------------------------------------------------------------
NoRecommendation == [task_id |-> 0, agent_id |-> None, result |-> None]

\* No initiate_handoff call is in progress and none has returned.
NoCall == [pc |-> "idle", task_id |-> 0, from_agent |-> None, to_agent |-> None,
           returned |-> None]

\* No check_pending_handoffs call is in progress; nothing has been pushed onto
\* an agent's list, and no call has returned anything to an agent.
NoDrain == [pc |-> "idle", agent_id |-> None, notifications |-> <<>>,
            pushed |-> [a \in Agents |-> <<>>], received |-> [a \in Agents |-> <<>>]]

\* main_loop before its first statement; no helper has been called.
AgentStart == [pc |-> "register", attempt |-> 0, consecutive_failures |-> 0,
               iterations |-> 0, helper |-> None, post |-> None, returned |-> None]

\* An agent record as registration leaves it: online, idle, no history, its
\* last heartbeat the time of the registration (tick 1, when the hub starts).
\* capabilities is the set of models the agent declared ({}: universal);
\* current_load is in tenths.
Node(host, capabilities) ==
    [status |-> "online", active_tasks |-> 0, host |-> host,
     capabilities |-> capabilities, current_load |-> 0,
     tasks_completed |-> 0, tasks_failed |-> 0, last_heartbeat |-> 1]

\* The hub with the agent records nn and no task.
Registry(nn) ==
    /\ tasks = <<>>
    /\ queue = <<>>
    /\ nodes = nn
    /\ silent = [a \in Agents |-> FALSE]
    /\ req = [a \in AgentIds |-> Idle]
    /\ claimed = <<>>
    /\ succeeded = <<>>
    /\ handoff_history = <<>>
    /\ notifications = [a \in Agents |-> <<>>]
    /\ delivery = [agent_id |-> None, task_id |-> 0, outcome |-> None]
    /\ agent_capabilities = [a \in AgentIds |-> {}]
    /\ recommendation = NoRecommendation
    /\ node_calls = [a \in AgentIds |->
                       IF a \in DOMAIN nn THEN {"register", "heartbeat"} ELSE {}]
    /\ ops = 0
    /\ now = 1
    /\ heard = [a \in AgentIds |->
                  IF a \in DOMAIN nn THEN [at |-> 1, timestamp |-> 1]
                                     ELSE [at |-> 0, timestamp |-> 0]]
    /\ active_handoffs = [t \in {} |-> "pending"]
    /\ handoff_call = NoCall
    /\ agent_loop = AgentStart
    /\ drain = NoDrain

\* Two universal agents are registered; a1 registered a host and port.
Init == Registry([a \in Agents |-> Node(a = "a1", {})])

\* POST /nodes/register and POST /nodes/heartbeat: the routes answer 200 with
\* the request echoed, and call nothing.
register_node(a) ==
    /\ node_calls' = [node_calls EXCEPT ![a] = @ \cup {"register"}]
    /\ Served
    /\ UNCHANGED <<tasks, queue, nodes, silent, req, claimed, succeeded, handoff_history,
                   notifications, delivery, evaluator, aux>>

\* Mutant of heartbeat: the timestamp the request carries is stored as the
\* agent's last heartbeat, whatever was stored.
heartbeat_stores_timestamp(a, ts) ==
    /\ node_calls' = [node_calls EXCEPT ![a] = @ \cup {"heartbeat"}]
    /\ heard' = [heard EXCEPT ![a] = [at |-> now, timestamp |-> ts]]
    /\ nodes' = IF NodeKnown(a) THEN [nodes EXCEPT ![a].last_heartbeat = ts] ELSE nodes
    /\ Served
    /\ UNCHANGED <<tasks, queue, silent, req, claimed, succeeded, handoff_history,
                   notifications, delivery, evaluator, now, manager, agent_loop>>

\* The heartbeat request of agent a carries the timestamp ts; heard keeps
\* when the hub answered it.
heartbeat_reply(a) == "heartbeat_received"

heartbeat(a, ts) ==
    /\ node_calls' = [node_calls EXCEPT ![a] = @ \cup {"heartbeat"}]
    /\ heard' = [heard EXCEPT ![a] = [at |-> now, timestamp |-> ts]]
    /\ Served
    /\ UNCHANGED <<tasks, queue, nodes, silent, req, claimed, succeeded, handoff_history,
                   notifications, delivery, evaluator, now, manager, agent_loop>>

\* POST /tasks/create: scheduler.create_task.
create_task(m, p) ==
    /\ Len(tasks) < MaxTasks
    /\ LET t == Len(tasks) + 1
           tt == Append(tasks, NewTask(m, p))
       IN  /\ tasks' = tt
           /\ queue' = Enqueue(tt, queue, t)
           /\ claimed' = Append(claimed, {})
           /\ succeeded' = Append(succeeded, {})
    /\ Served
    /\ UNCHANGED <<nodes, silent, req, handoff_history, notifications, delivery, evaluator, node_calls, aux>>

\* PUT /tasks/{task_id}/status: registry.update_task_status without node_id;
\* a refusal is answered 404.
update_task_status_reply(t) == IF UpdateAllowed(tasks, t) THEN "updated" ELSE "task_not_found"

update_task_status_route(t, status) ==
    /\ update_task_status_reply(t) = "updated"
    /\ tasks' = update_task_status(tasks, t, status, None, None)
    /\ Served
    /\ UNCHANGED <<queue, nodes, silent, req, claimed, succeeded, handoff_history, notifications, delivery, evaluator, node_calls, aux>>

\* DELETE /tasks/{task_id}: scheduler.cancel_task; a refusal is answered 400.
cancel_task_reply(t) == IF CancelAllowed(tasks, t) THEN "cancelled" ELSE "cannot_cancel"

\* Mutant of cancel_task: the task is marked cancelled and left in the queue.
cancel_task_keeps_queued(t) ==
    /\ cancel_task_reply(t) = "cancelled"
    /\ tasks' = [tasks EXCEPT ![t].status = "cancelled"]
    /\ succeeded' = [succeeded EXCEPT ![t] = @ \cup {"cancel"}]
    /\ Served
    /\ UNCHANGED <<queue, nodes, silent, req, claimed, handoff_history, notifications, delivery, evaluator, node_calls, aux>>

cancel_task(t) ==
    /\ cancel_task_reply(t) = "cancelled"
    /\ tasks' = [tasks EXCEPT ![t].status = "cancelled"]
    /\ queue' = Dequeue(queue, t)
    /\ succeeded' = [succeeded EXCEPT ![t] = @ \cup {"cancel"}]
    /\ Served
    /\ UNCHANGED <<nodes, silent, req, claimed, handoff_history, notifications, delivery, evaluator, node_calls, aux>>

----------------------------------------------------------------------------
(* GET /tasks/agent/{node_id}/next                                           *)

\* Mutant of get_next_task_reply: the agent's status is not checked.
get_next_task_reply_any_status(a) ==
    IF ~NodeKnown(a) THEN "agent_not_found"
    ELSE IF get_pending_task(queue) = 0 THEN "no_pending_tasks"
    ELSE "task"

\* Mutant of get_next_task_reply: an empty queue is not checked for.
get_next_task_reply_any_queue(a) ==
    IF ~NodeKnown(a) THEN "agent_not_found"
    ELSE IF nodes[a].status # "online" THEN "not_online"
    ELSE "task"

\* Lines 161-172: the agent checks, then registry.get_pending_task().
get_next_task_reply(a) ==
    IF ~NodeKnown(a) THEN "agent_not_found"
    ELSE IF nodes[a].status # "online" THEN "not_online"
    ELSE IF get_pending_task(queue) = 0 THEN "no_pending_tasks"
    ELSE "task"

\* Mutant of get_next_task_for_agent: reads the head and leaves it queued.
get_next_task_without_pop(a) ==
    /\ req[a] = Idle
    /\ get_next_task_reply(a) = "task"
    /\ req' = [req EXCEPT ![a] = [Idle EXCEPT !.op = "claim",
                                              !.task = get_pending_task(queue)]]
    /\ claimed' = [claimed EXCEPT ![get_pending_task(queue)] = @ \cup {a}]
    /\ Served
    /\ UNCHANGED <<tasks, queue, nodes, silent, succeeded, handoff_history, notifications, delivery, evaluator, node_calls, aux>>

get_next_task_for_agent(a) ==
    /\ req[a] = Idle
    /\ get_next_task_reply(a) = "task"
    /\ queue' = QueueAfterPop(queue)
    /\ req' = [req EXCEPT ![a] = [Idle EXCEPT !.op = "claim",
                                              !.task = get_pending_task(queue)]]
    /\ claimed' = [claimed EXCEPT ![get_pending_task(queue)] = @ \cup {a}]
    /\ Served
    /\ UNCHANGED <<tasks, nodes, silent, succeeded, handoff_history, notifications, delivery, evaluator, node_calls, aux>>

\* Lines 174-187: registry.get_task, then update_task_status(task_id,
\* "running", node_id), whose result the route does not look at; the task is
\* returned to the agent.
get_next_task_assign_reply(a) ==
    IF TaskKnown(req[a].task) THEN "task" ELSE "no_pending_tasks"

get_next_task_assign(a) ==
    /\ req[a].op = "claim"
    /\ LET t == req[a].task
       IN  tasks' = IF TaskKnown(t)
                    THEN update_task_status(tasks, t, "running", a, None)
                    ELSE tasks
    /\ req' = [req EXCEPT ![a] = Idle]
    /\ UNCHANGED <<queue, nodes, silent, claimed, succeeded, handoff_history, notifications, delivery, evaluator, node_calls, ops, aux>>

----------------------------------------------------------------------------
(* POST /tasks/agent/{node_id}/complete/{task_id} and .../fail/{task_id}     *)

\* Mutant of report_reply: the assignment is not checked.
report_reply_unchecked(a, t) == IF ~TaskKnown(t) THEN "task_not_found" ELSE "proceed"

\* Lines 199-205 and 239-245: the task must exist (404) and be assigned to
\* the caller (403).
report_reply(a, t) ==
    IF ~TaskKnown(t) THEN "task_not_found"
    ELSE IF tasks[t].node_id # a THEN "not_assigned"
    ELSE "proceed"

report_check(a, t, op, result) ==
    /\ req[a] = Idle
    /\ report_reply(a, t) = "proceed"
    /\ req' = [req EXCEPT ![a] = [op |-> op, task |-> t, result |-> result,
                                  owner |-> tasks[t].node_id]]
    /\ Served
    /\ UNCHANGED <<tasks, queue, nodes, silent, claimed, succeeded, handoff_history, notifications, delivery, evaluator, node_calls, aux>>

complete_task_for_agent(a, t, result) == report_check(a, t, "complete", result)

fail_task_for_agent(a, t, error) == report_check(a, t, "fail", error)

\* Mutant of report_update_reply: the route answers success whatever
\* update_task_status returned.
report_update_reply_ignored(a) == "ok"

\* Lines 215-227 and 255-265: the route answers what update_task_status
\* returned: success, or 500 "Failed to update task".
report_update_reply(a) ==
    IF UpdateAllowed(tasks, req[a].task) THEN "ok" ELSE "update_failed"

\* Lines 207-227: update_task_status(task_id, "completed", node_id, result).
complete_task_update(a) ==
    /\ req[a].op = "complete"
    /\ LET t == req[a].task
       IN  /\ tasks' = update_task_status(tasks, t, "completed", a, req[a].result)
           /\ succeeded' = IF report_update_reply(a) = "ok"
                           THEN [succeeded EXCEPT ![t] = @ \cup {"complete"}]
                           ELSE succeeded
    /\ req' = [req EXCEPT ![a] = Idle]
    /\ UNCHANGED <<queue, nodes, silent, claimed, handoff_history, notifications, delivery, evaluator, node_calls, ops, aux>>

\* Lines 247-265: update_task_status(task_id, "failed", node_id, {"error": error}).
fail_task_update(a) ==
    /\ req[a].op = "fail"
    /\ tasks' = update_task_status(tasks, req[a].task, "failed", a, req[a].result)
    /\ req' = [req EXCEPT ![a] = Idle]
    /\ UNCHANGED <<queue, nodes, silent, claimed, succeeded, handoff_history, notifications, delivery, evaluator, node_calls, ops, aux>>

----------------------------------------------------------------------------
(* Liveness monitor (section 4.4)                                            *)

\* Time passes: an online agent's last heartbeat becomes older than the
\* offline threshold.
Elapse(a) ==
    /\ nodes[a].status = "online"
    /\ ~silent[a]
    /\ silent' = [silent EXCEPT ![a] = TRUE]
    /\ UNCHANGED <<tasks, queue, nodes, req, claimed, succeeded, handoff_history, notifications, delivery, evaluator, node_calls, ops, aux>>

\* offline_threshold (default 30 s), in ticks of the clock.
OfflineThreshold == 2

\* The clock runs up to MaxTime.
MaxTime == 4

\* The clock advances by one tick: an agent is silent when its stored last
\* heartbeat is older than the threshold.
Tick ==
    /\ now < MaxTime
    /\ now' = now + 1
    /\ silent' = [a \in Agents |-> now' - nodes[a].last_heartbeat > OfflineThreshold]
    /\ UNCHANGED <<tasks, queue, nodes, req, claimed, succeeded, handoff_history, notifications,
                   delivery, evaluator, node_calls, ops, heard, manager, agent_loop>>

Expired == {a \in Agents : nodes[a].status = "online" /\ silent[a]}

Orphans(S) == {t \in DOMAIN tasks : tasks[t].status \in InFlight /\ tasks[t].node_id \in S}

\* Mutant of Sweep: the agents go offline and their tasks are left with them.
SweepWithoutReclaim ==
    /\ Expired # {}
    /\ nodes' = [a \in Agents |->
                   IF a \in Expired THEN [nodes[a] EXCEPT !.status = "offline"] ELSE nodes[a]]
    /\ UNCHANGED <<tasks, queue, claimed, silent, req, succeeded, handoff_history, notifications, delivery, evaluator, node_calls, ops, aux>>

\* One sweep: every online agent whose heartbeat is too old goes offline and
\* each of its active tasks is reclaimed.
Sweep ==
    /\ Expired # {}
    /\ nodes' = [a \in Agents |->
                   IF a \in Expired THEN [nodes[a] EXCEPT !.status = "offline"] ELSE nodes[a]]
    /\ tasks' = Reclaim(tasks, Orphans(Expired))
    /\ queue' = EnqueueAll(tasks, queue, Orphans(Expired))
    /\ claimed' = [t \in DOMAIN claimed |-> IF t \in Orphans(Expired) THEN {} ELSE claimed[t]]
    /\ UNCHANGED <<silent, req, succeeded, handoff_history, notifications, delivery, evaluator, node_calls, ops, aux>>

----------------------------------------------------------------------------
(* P2PHandoffManager.initiate_handoff                                        *)

\* _notify_agent_handoff: with a host and port the hub posts to the agent
\* ("pushed": status 200; "refused": another status; a RequestException falls
\* through to the queue); without them it pushes onto the agent's list.
NotifyOutcomes(a) == IF nodes[a].host THEN {"pushed", "refused", "queued"} ELSE {"queued"}

lpush(q, x) == <<x>> \o q

\* Lines 124-134: the task must exist and the target must be online.
initiate_handoff_check(t, to) ==
    /\ TaskKnown(t)
    /\ NodeKnown(to)
    /\ nodes[to].status = "online"

initiate_handoff(t, from, to) ==
    /\ initiate_handoff_check(t, to)
    /\ \E outcome \in NotifyOutcomes(to) :
            /\ delivery' = [agent_id |-> to, task_id |-> t, outcome |-> outcome]
            /\ notifications' = IF outcome = "queued"
                                THEN [notifications EXCEPT ![to] = lpush(@, t)]
                                ELSE notifications
            /\ IF outcome # "refused"
               THEN /\ tasks' = update_task_status(tasks, t, "running", to, None)
                    /\ handoff_history' = Append(handoff_history,
                           [task_id |-> t, from_agent |-> from, to_agent |-> to,
                            status |-> "completed"])
               ELSE UNCHANGED <<tasks, handoff_history>>
    /\ Served
    /\ UNCHANGED <<queue, nodes, silent, req, claimed, succeeded, evaluator, node_calls, aux>>

----------------------------------------------------------------------------
(* P2PHandoffManager.initiate_handoff, statement by statement.  The manager  *)
(* runs one call at a time (the coroutine never suspends: its only await is  *)
(* of _notify_agent_handoff, which blocks in requests.post), while the task  *)
(* routes of the hub go on serving requests between its statements.          *)

Without(f, t) == [u \in DOMAIN f \ {t} |-> f[u]]

HandoffRecord(call, status) ==
    [task_id |-> call.task_id, from_agent |-> call.from_agent, to_agent |-> call.to_agent,
     status |-> status]

\* Lines 123-145: the checks; then the handoff record, pending, is put in
\* active_handoffs.  A failed check returns False through the finally block.
initiate_handoff_start(t, from, to) ==
    /\ handoff_call.pc = "idle"
    /\ IF initiate_handoff_check(t, to)
       THEN /\ active_handoffs' = [u \in DOMAIN active_handoffs \cup {t} |-> "pending"]
            /\ handoff_call' = [pc |-> "notify", task_id |-> t, from_agent |-> from,
                                to_agent |-> to, returned |-> None]
       ELSE /\ active_handoffs' = Without(active_handoffs, t)
            /\ handoff_call' = [pc |-> "idle", task_id |-> t, from_agent |-> from,
                                to_agent |-> to, returned |-> "false"]
    /\ Served
    /\ UNCHANGED <<tasks, queue, nodes, silent, req, claimed, succeeded, handoff_history,
                   notifications, delivery, evaluator, node_calls, now, heard, agent_loop, drain>>

\* Mutant of initiate_handoff_notify: a handoff whose notification failed is
\* recorded in handoff_history as failed.
initiate_handoff_notify_recording_failure ==
    /\ handoff_call.pc = "notify"
    /\ \E outcome \in NotifyOutcomes(handoff_call.to_agent) :
          /\ delivery' = [agent_id |-> handoff_call.to_agent,
                          task_id |-> handoff_call.task_id, outcome |-> outcome]
          /\ notifications' = IF outcome = "queued"
                              THEN [notifications EXCEPT ![handoff_call.to_agent] =
                                        lpush(@, handoff_call.task_id)]
                              ELSE notifications
          /\ IF outcome # "refused"
             THEN /\ handoff_call' = [handoff_call EXCEPT !.pc = "update"]
                  /\ UNCHANGED <<active_handoffs, handoff_history>>
             ELSE /\ handoff_call' = [handoff_call EXCEPT !.pc = "finally",
                                                          !.returned = "false"]
                  /\ active_handoffs' =
                        [active_handoffs EXCEPT ![handoff_call.task_id] = "failed"]
                  /\ handoff_history' =
                        Append(handoff_history, HandoffRecord(handoff_call, "failed"))
    /\ UNCHANGED <<tasks, queue, nodes, silent, req, claimed, succeeded,
                   evaluator, node_calls, ops, now, heard, agent_loop, drain>>

\* Line 148 (and 168-171 when the notification failed).
initiate_handoff_notify ==
    /\ handoff_call.pc = "notify"
    /\ \E outcome \in NotifyOutcomes(handoff_call.to_agent) :
          /\ delivery' = [agent_id |-> handoff_call.to_agent,
                          task_id |-> handoff_call.task_id, outcome |-> outcome]
          /\ notifications' = IF outcome = "queued"
                              THEN [notifications EXCEPT ![handoff_call.to_agent] =
                                        lpush(@, handoff_call.task_id)]
                              ELSE notifications
          /\ IF outcome # "refused"
             THEN /\ handoff_call' = [handoff_call EXCEPT !.pc = "update"]
                  /\ UNCHANGED active_handoffs
             ELSE /\ handoff_call' = [handoff_call EXCEPT !.pc = "finally",
                                                          !.returned = "false"]
                  /\ active_handoffs' =
                        [active_handoffs EXCEPT ![handoff_call.task_id] = "failed"]
    /\ UNCHANGED <<tasks, queue, nodes, silent, req, claimed, succeeded, handoff_history,
                   evaluator, node_calls, ops, now, heard, agent_loop, drain>>

\* Lines 150-167: update_task_status(task_id, "running", to_agent), whose
\* result is not looked at; the record is marked completed and a copy of it
\* is appended to handoff_history.
initiate_handoff_update ==
    /\ handoff_call.pc = "update"
    /\ tasks' = update_task_status(tasks, handoff_call.task_id, "running",
                                   handoff_call.to_agent, None)
    /\ active_handoffs' = [active_handoffs EXCEPT ![handoff_call.task_id] = "completed"]
    /\ handoff_history' = Append(handoff_history, HandoffRecord(handoff_call, "completed"))
    /\ handoff_call' = [handoff_call EXCEPT !.pc = "finally", !.returned = "true"]
    /\ UNCHANGED <<queue, nodes, silent, req, claimed, succeeded, notifications, delivery,
                   evaluator, node_calls, ops, now, heard, agent_loop, drain>>

\* Mutant of initiate_handoff_except: the registry call raises after it has
\* written the new owner.
initiate_handoff_except_after_write ==
    /\ handoff_call.pc = "update"
    /\ tasks' = update_task_status(tasks, handoff_call.task_id, "running",
                                   handoff_call.to_agent, None)
    /\ handoff_call' = [handoff_call EXCEPT !.pc = "finally", !.returned = "false"]
    /\ UNCHANGED <<queue, nodes, silent, req, claimed, succeeded, handoff_history,
                   notifications, delivery, evaluator, node_calls, ops, now, heard,
                   active_handoffs, agent_loop, drain>>

\* Lines 173-175: the registry call raises (the store cannot be reached);
\* the exception is logged and the call returns False.
initiate_handoff_except ==
    /\ handoff_call.pc = "update"
    /\ handoff_call' = [handoff_call EXCEPT !.pc = "finally", !.returned = "false"]
    /\ UNCHANGED <<tasks, queue, nodes, silent, req, claimed, succeeded, handoff_history,
                   notifications, delivery, evaluator, node_calls, ops, now, heard,
                   active_handoffs, agent_loop, drain>>

\* Mutant of initiate_handoff_finally: the record is cleaned up only when the
\* handoff succeeded.
initiate_handoff_cleanup_on_success ==
    /\ handoff_call.pc = "finally"
    /\ active_handoffs' = IF handoff_call.returned = "true"
                          THEN Without(active_handoffs, handoff_call.task_id)
                          ELSE active_handoffs
    /\ handoff_call' = [handoff_call EXCEPT !.pc = "idle"]
    /\ UNCHANGED <<tasks, queue, nodes, silent, req, claimed, succeeded, handoff_history,
                   notifications, delivery, evaluator, node_calls, ops, now, heard, agent_loop, drain>>

\* Lines 176-179: the finally block deletes the task's record from
\* active_handoffs, and the call returns.
initiate_handoff_finally ==
    /\ handoff_call.pc = "finally"
    /\ active_handoffs' = Without(active_handoffs, handoff_call.task_id)
    /\ handoff_call' = [handoff_call EXCEPT !.pc = "idle"]
    /\ UNCHANGED <<tasks, queue, nodes, silent, req, claimed, succeeded, handoff_history,
                   notifications, delivery, evaluator, node_calls, ops, now, heard, agent_loop, drain>>

----------------------------------------------------------------------------
(* P2PHandoffManager.get_handoff_stats                                       *)

\* round(x, 2) of the percentage n / d * 100, in hundredths of a percent:
\* to the nearest hundredth, a tie going to the even one.
RoundedPercent(n, d) ==
    LET q == (n * 10000) \div d
        r == (n * 10000) % d
    IN  IF 2 * r > d THEN q + 1
        ELSE IF 2 * r = d THEN q + (q % 2)
        ELSE q

\* Lines 258-291, without the figures computed from wall-clock time
\* (average_handoffs_per_hour, recent_handoffs).
get_handoff_stats ==
    LET total_handoffs == Len(handoff_history)
        successful_handoffs ==
            Cardinality({i \in DOMAIN handoff_history :
                            handoff_history[i].status = "completed"})
    IN  IF total_handoffs = 0
        THEN [total_handoffs |-> 0, success_rate |-> 0]
        ELSE [total_handoffs |-> total_handoffs,
              successful_handoffs |-> successful_handoffs,
              success_rate |-> RoundedPercent(successful_handoffs, total_handoffs),
              active_handoffs |-> Cardinality(DOMAIN active_handoffs)]

----------------------------------------------------------------------------
(* P2PHandoffManager.evaluate_handoff_candidate                              *)

\* Mutant of Eligible: the caller is a candidate like the others.
EligibleWithCaller(caller) ==
    {a \in DOMAIN nodes : /\ nodes[a].status = "online"
                          /\ nodes[a].current_load < 7
                          /\ nodes[a].active_tasks < 3}

\* Lines 43-57: the online agents other than the caller with current_load
\* below 0.7 (loads are in tenths) and fewer than 3 active tasks.
Eligible(caller) ==
    {a \in DOMAIN nodes : /\ nodes[a].status = "online"
                          /\ a # caller
                          /\ nodes[a].current_load < 7
                          /\ nodes[a].active_tasks < 3}

\* Mutant of supports_model: only a model the manager holds for the agent is
\* supported.
supports_model_listed_only(a, m) == m \in agent_capabilities[a]

\* _supports_model: the model is among the agent's supported models, or the
\* manager holds no supported model for the agent.
supports_model(a, m) == m \in agent_capabilities[a] \/ agent_capabilities[a] = {}

\* The score of lines 79-98 as the fraction <<numerator, denominator>>:
\* (1 - load) * 40, max(0, 5 - active_tasks) * 10, completed / total * 30
\* when total > 0, and 20 when the model is supported.
Score(a, m) ==
    LET whole == (10 - nodes[a].current_load) * 4
                 + (IF nodes[a].active_tasks < 5 THEN (5 - nodes[a].active_tasks) * 10 ELSE 0)
                 + (IF supports_model(a, m) THEN 20 ELSE 0)
        total == nodes[a].tasks_completed + nodes[a].tasks_failed
    IN  IF total > 0
        THEN <<whole * total + nodes[a].tasks_completed * 30, total>>
        ELSE <<whole, 1>>

Greater(x, y) == x[1] * y[2] > y[1] * x[2]

Exceeds(x, n) == x[1] > n * x[2]

\* Mutant of score_candidates: a best score of 50 is enough.
score_candidates_from_50(m, candidates) ==
    LET best == {a \in candidates : \A b \in candidates : ~Greater(Score(b, m), Score(a, m))}
    IN  IF \E a \in best : ~Exceeds(Score(a, m), 49)
        THEN {None}
        ELSE best

\* _score_candidates: the candidates sorted by score, descending; the first
\* is returned if its score is above 50.  The sort is stable, so among equal
\* best scores the first in registry.get_all_nodes() order wins, an order the
\* manager does not control: any of them.
score_candidates(m, candidates) ==
    LET best == {a \in candidates : \A b \in candidates : ~Greater(Score(b, m), Score(a, m))}
    IN  IF \E a \in best : ~Exceeds(Score(a, m), 50)
        THEN {None}
        ELSE best

\* What evaluate_handoff_candidate(task_id, current_agent_id) may return.
evaluate_handoff_candidate_reply(t, caller) ==
    IF ~TaskKnown(t) \/ ~NodeKnown(caller) \/ Eligible(caller) = {}
    THEN {None}
    ELSE score_candidates(tasks[t].model, Eligible(caller))

evaluate_handoff_candidate(t, caller) ==
    /\ \E r \in evaluate_handoff_candidate_reply(t, caller) :
          recommendation' = [task_id |-> t, agent_id |-> caller, result |-> r]
    /\ UNCHANGED <<tasks, queue, nodes, silent, req, claimed, succeeded, handoff_history,
                   notifications, delivery, agent_capabilities, node_calls, ops, aux>>

----------------------------------------------------------------------------
\* The requests the hub receives.  A handoff is asked for on behalf of the
\* agent that holds the task.
Next ==
    \/ \E p \in Priorities : create_task(DefaultModel, p)
    \/ \E t \in TaskIds, s \in PutStatuses : update_task_status_route(t, s)
    \/ \E t \in TaskIds : cancel_task(t)
    \/ \E a \in AgentIds : get_next_task_for_agent(a)
    \/ \E a \in AgentIds : get_next_task_assign(a)
    \/ \E a \in AgentIds, t \in TaskIds, r \in Results : complete_task_for_agent(a, t, r)
    \/ \E a \in AgentIds : complete_task_update(a)
    \/ \E a \in AgentIds, t \in TaskIds, e \in Errors : fail_task_for_agent(a, t, e)
    \/ \E a \in AgentIds : fail_task_update(a)
    \/ \E a \in Agents : Elapse(a)
    \/ Sweep
    \/ \E t \in TaskIds, from \in Agents, to \in Agents :
          TaskKnown(t) /\ tasks[t].node_id = from /\ initiate_handoff(t, from, to)

Spec == Init /\ [][Next]_vars

\* The liveness monitor's loop runs at a fixed cadence: a sweep that is due
\* is eventually made.
LiveSpec == Spec /\ WF_vars(Sweep)

\* Capabilities: a2 declared the one model it serves; tasks of both models
\* are submitted and claimed.
CapInit == Registry([a \in Agents |-> Node(a = "a1", IF a = "a2" THEN {"m-small"} ELSE {})])

CapNext ==
    \/ \E m \in Models : create_task(m, 5)
    \/ \E t \in TaskIds : cancel_task(t)
    \/ \E a \in AgentIds : get_next_task_for_agent(a)
    \/ \E a \in AgentIds : get_next_task_assign(a)

CapSpec == CapInit /\ [][CapNext]_vars

\* A hub that starts with no agent: agents register and heartbeat through
\* the node routes, clients submit, update and cancel tasks.  The agent
\* routes answer "Agent not found" throughout (see C15) and take no step.
NodeInit == Registry(<<>>)

NodeNext ==
    \/ \E a \in Agents : register_node(a)
    \/ \E a \in Agents, ts \in Timestamps : heartbeat(a, ts)
    \/ \E p \in Priorities : create_task(DefaultModel, p)
    \/ \E t \in TaskIds, s \in PutStatuses : update_task_status_route(t, s)
    \/ \E t \in TaskIds : cancel_task(t)

NodeSpec == NodeInit /\ [][NodeNext]_vars

\* Heartbeats against the clock: the registered agents and an unknown one
\* send heartbeats, stamped with the current time or with a time before
\* their registration, while the clock runs and the monitor sweeps; tasks are
\* submitted and claimed.
HeartbeatNext ==
    \/ Tick
    \/ \E a \in AgentIds, ts \in {0, now} : heartbeat(a, ts)
    \/ Sweep
    \/ create_task(DefaultModel, 5)
    \/ \E a \in AgentIds : get_next_task_for_agent(a)
    \/ \E a \in AgentIds : get_next_task_assign(a)

HeartbeatSpec == Init /\ [][HeartbeatNext]_vars

----------------------------------------------------------------------------
(* Scheduler: ageing of stale pending tasks (section 4.2).  The scheduler is *)
(* followed on its own, without the routes: tasks are submitted and claimed  *)
(* without end, at most MaxTasks of them known at a time.                    *)

\* A task is submitted with priority p.
SubmitTask(p) ==
    /\ Len(tasks) < MaxTasks
    /\ LET t == Len(tasks) + 1
           tt == Append(tasks, NewTask(DefaultModel, p))
       IN  /\ tasks' = tt
           /\ queue' = Enqueue(tt, queue, t)
           /\ claimed' = Append(claimed, {})
           /\ succeeded' = Append(succeeded, {})
    /\ UNCHANGED <<nodes, silent, req, handoff_history, notifications, delivery, evaluator,
                   node_calls, ops, aux>>

\* An online agent asks for work and is given the head of the queue.
ClaimTask(a) ==
    /\ nodes[a].status = "online"
    /\ queue # <<>>
    /\ queue' = QueueAfterPop(queue)
    /\ tasks' = update_task_status(tasks, get_pending_task(queue), "running", a, None)
    /\ claimed' = [claimed EXCEPT ![get_pending_task(queue)] = @ \cup {a}]
    /\ UNCHANGED <<nodes, silent, req, succeeded, handoff_history, notifications, delivery,
                   evaluator, node_calls, ops, aux>>

\* The newest task has been claimed and is no longer followed; its id stands
\* for the next task submitted.
ForgetTask ==
    /\ tasks # <<>>
    /\ tasks[Len(tasks)].status # "pending"
    /\ tasks' = SubSeq(tasks, 1, Len(tasks) - 1)
    /\ claimed' = SubSeq(claimed, 1, Len(tasks) - 1)
    /\ succeeded' = SubSeq(succeeded, 1, Len(tasks) - 1)
    /\ UNCHANGED <<queue, nodes, silent, req, handoff_history, notifications, delivery,
                   evaluator, node_calls, ops, aux>>

\* The tasks a sweep finds stale when t is the newest of them: t, which is
\* queued, and every queued task submitted before it.
Stale(t) == {u \in Range(queue) : u <= t /\ t \in Range(queue)}

Aged(tt, S) ==
    [t \in DOMAIN tt |->
        IF t \in S THEN [tt[t] EXCEPT !.effective_priority = Clamp(@ - 1)] ELSE tt[t]]

\* The tasks of S in queue order.
InOrder(tt, S) ==
    [i \in 1..Cardinality(S) |->
        CHOOSE t \in S : Cardinality({u \in S : Earlier(tt, u, t)}) = i - 1]

\* Mutant of AgeStale: the sweep leaves the effective priorities as they are.
AgeStaleKeepsPriority(t) ==
    /\ Stale(t) # {}
    /\ UNCHANGED vars

\* A sweep: the effective priority of each stale pending task is decremented
\* (not below 0), and the queue is put in order again.
AgeStale(t) ==
    /\ Stale(t) # {}
    /\ tasks' = Aged(tasks, Stale(t))
    /\ queue' = InOrder(tasks', Range(queue))
    /\ UNCHANGED <<nodes, silent, req, claimed, succeeded, handoff_history, notifications,
                   delivery, evaluator, node_calls, ops, aux>>

AgingNext ==
    \/ \E p \in {0, 2} : SubmitTask(p)
    \/ \E a \in Agents : ClaimTask(a)
    \/ ForgetTask
    \/ \E t \in TaskIds : AgeStale(t)

\* The agents keep asking for work, and the sweeps go on while a stale task
\* can be made more urgent.
AgingSpec ==
    /\ Init
    /\ [][AgingNext]_vars
    /\ WF_vars(\E a \in Agents : ClaimTask(a))
    /\ WF_vars(\E t \in TaskIds : AgeStale(t))

----------------------------------------------------------------------------
(* exo_agent: utils.register_agent, utils.heartbeat and agent.main_loop      *)

\* What requests.post does: it returns a response, or it raises.
PostOutcomes == {"ok", "raises"}

\* The iterations of the heartbeat loop that the model follows.
MaxLoops == 6

\* utils.py 3-4 and 6-7: the helpers post and return nothing (None); an
\* exception of requests.post leaves the helper.
register_agent(post) == IF post = "ok" THEN None ELSE "raised"

utils_heartbeat(post) == IF post = "ok" THEN None ELSE "raised"

\* Python truth of what a helper returned.
Truthy(r) == r = "true"

\* agent.py 15-24: up to max_retries = 3 registration attempts, outside any
\* try block; the loop is left at the first attempt that returns a true
\* value and after the last attempt.
max_retries == 3

main_loop_register(post) ==
    /\ agent_loop.pc = "register"
    /\ LET r == register_agent(post)
       IN  agent_loop' =
             [agent_loop EXCEPT
                !.helper = "register_agent", !.post = post, !.returned = r,
                !.pc = IF r = "raised" THEN "crashed"
                       ELSE IF Truthy(r) \/ agent_loop.attempt >= max_retries - 1
                       THEN "heartbeat"
                       ELSE "register",
                !.attempt = IF r # "raised" /\ ~Truthy(r) /\ @ < max_retries - 1
                            THEN @ + 1 ELSE @]
    /\ UNCHANGED hub

\* agent.py 29-39: the heartbeat; a true value resets consecutive_failures,
\* another value counts as a failure, and an exception goes to the handler
\* of line 47.
max_consecutive_failures == 5

main_loop_heartbeat(post) ==
    /\ agent_loop.pc = "heartbeat"
    /\ agent_loop.iterations < MaxLoops
    /\ LET r == utils_heartbeat(post)
           failures == IF r = "raised" THEN agent_loop.consecutive_failures
                       ELSE IF Truthy(r) THEN 0
                       ELSE agent_loop.consecutive_failures + 1
       IN  agent_loop' =
             [agent_loop EXCEPT
                !.helper = "heartbeat", !.post = post, !.returned = r,
                !.consecutive_failures = failures,
                !.pc = IF r = "raised" THEN "sleep"
                       ELSE IF ~Truthy(r) /\ failures >= max_consecutive_failures
                       THEN "reregister"
                       ELSE "inference"]
    /\ UNCHANGED hub

\* agent.py 36-39: after max_consecutive_failures failures the agent
\* registers again and resets the counter.
main_loop_reregister(post) ==
    /\ agent_loop.pc = "reregister"
    /\ LET r == register_agent(post)
       IN  agent_loop' =
             [agent_loop EXCEPT
                !.helper = "register_agent", !.post = post, !.returned = r,
                !.consecutive_failures = IF r = "raised" THEN @ ELSE 0,
                !.pc = IF r = "raised" THEN "sleep" ELSE "inference"]
    /\ UNCHANGED hub

\* agent.py 41-50: run_inference(), whose exceptions are logged, then the
\* sleep before the next iteration.
main_loop_inference ==
    /\ agent_loop.pc = "inference"
    /\ agent_loop' = [agent_loop EXCEPT !.pc = "sleep"]
    /\ UNCHANGED hub

main_loop_sleep ==
    /\ agent_loop.pc = "sleep"
    /\ agent_loop' = [agent_loop EXCEPT !.pc = "heartbeat", !.iterations = @ + 1]
    /\ UNCHANGED hub

\* agent.py 44-46: a KeyboardInterrupt inside the try block ends the loop.
main_loop_interrupt ==
    /\ agent_loop.pc \in {"heartbeat", "reregister", "inference"}
    /\ agent_loop' = [agent_loop EXCEPT !.pc = "stopped"]
    /\ UNCHANGED hub

AgentNext ==
    \/ \E post \in PostOutcomes : main_loop_register(post)
    \/ \E post \in PostOutcomes : main_loop_heartbeat(post)
    \/ \E post \in PostOutcomes : main_loop_reregister(post)
    \/ main_loop_inference
    \/ main_loop_sleep
    \/ main_loop_interrupt

AgentSpec == Init /\ [][AgentNext]_vars

\* Handoffs of a task that a1 is running, statement by statement, asked for
\* by any agent for any target, while the task is cancelled or reported
\* completed through the task routes.
HandoffInit ==
    /\ tasks = <<[NewTask(DefaultModel, 5) EXCEPT !.status = "running", !.node_id = "a1"]>>
    /\ queue = <<>>
    /\ nodes = [a \in Agents |-> Node(a = "a1", {})]
    /\ silent = [a \in Agents |-> FALSE]
    /\ req = [a \in AgentIds |-> Idle]
    /\ claimed = <<{"a1"}>>
    /\ succeeded = <<{}>>
    /\ handoff_history = <<>>
    /\ notifications = [a \in Agents |-> <<>>]
    /\ delivery = [agent_id |-> None, task_id |-> 0, outcome |-> None]
    /\ agent_capabilities = [a \in AgentIds |-> {}]
    /\ recommendation = NoRecommendation
    /\ node_calls = [a \in AgentIds |-> IF a \in Agents THEN {"register", "heartbeat"} ELSE {}]
    /\ ops = 0
    /\ now = 1
    /\ heard = [a \in AgentIds |-> IF a \in Agents THEN [at |-> 1, timestamp |-> 1]
                                                    ELSE [at |-> 0, timestamp |-> 0]]
    /\ active_handoffs = [t \in {} |-> "pending"]
    /\ handoff_call = NoCall
    /\ agent_loop = AgentStart
    /\ drain = NoDrain

HandoffNext ==
    \/ \E t \in TaskIds, from \in Agents, to \in AgentIds : initiate_handoff_start(t, from, to)
    \/ initiate_handoff_notify
    \/ initiate_handoff_update
    \/ initiate_handoff_except
    \/ initiate_handoff_finally
    \/ \E t \in TaskIds : cancel_task(t)
    \/ \E a \in AgentIds, t \in TaskIds, r \in Results : complete_task_for_agent(a, t, r)
    \/ \E a \in AgentIds : complete_task_update(a)

HandoffSpec == HandoffInit /\ [][HandoffNext]_vars

----------------------------------------------------------------------------
(* Scheduler: retry policy and orphan reclamation (sections 4.2 and 4.4),    *)
(* followed on their own: two tasks are submitted, claimed and reported      *)
(* failed; agents fall silent, are swept offline and come back with a        *)
(* heartbeat.                                                                *)

\* ReportFailure(agent_id, task_id, error_kind, message) for a task the agent
\* is running: a transient error below the attempt limit returns the task to
\* pending with attempt_count incremented and its priority kept; any other
\* report makes it failed.
ReportFailure(a, t, e) ==
    /\ TaskKnown(t)
    /\ tasks[t].status = "running" /\ tasks[t].node_id = a
    /\ IF e \in Transient /\ tasks[t].attempt_count < MaxAttempts
       THEN /\ tasks' = [tasks EXCEPT ![t].status = "pending", ![t].node_id = None,
                                      ![t].attempt_count = @ + 1]
            /\ queue' = Enqueue(tasks', queue, t)
            /\ claimed' = [claimed EXCEPT ![t] = {}]
       ELSE /\ tasks' = [tasks EXCEPT ![t].status = "failed", ![t].result = e]
            /\ UNCHANGED <<queue, claimed>>
    /\ UNCHANGED <<nodes, silent, req, succeeded, handoff_history, notifications, delivery,
                   evaluator, node_calls, ops, aux>>

\* RecordHeartbeat(id) for a known agent that is offline: it is online again.
RecordHeartbeat(a) ==
    /\ NodeKnown(a)
    /\ nodes[a].status = "offline"
    /\ nodes' = [nodes EXCEPT ![a].status = "online"]
    /\ silent' = [silent EXCEPT ![a] = FALSE]
    /\ Served
    /\ UNCHANGED <<tasks, queue, req, claimed, succeeded, handoff_history, notifications,
                   delivery, evaluator, node_calls, aux>>

RetryNext ==
    \/ Len(tasks) < 2 /\ SubmitTask(5)
    \/ \E a \in Agents : ClaimTask(a)
    \/ \E a \in Agents, t \in TaskIds, e \in Errors : ReportFailure(a, t, e)
    \/ \E a \in Agents : Elapse(a)
    \/ Sweep
    \/ \E a \in Agents : RecordHeartbeat(a)

RetrySpec == Init /\ [][RetryNext]_vars

----------------------------------------------------------------------------
(* P2PHandoffManager.check_pending_handoffs, one Redis command at a time,    *)
(* while _notify_agent_handoff pushes onto the same lists and agents send    *)
(* heartbeats.                                                               *)

MaxPushed == 3

\* The number of notifications pushed so far, for all agents.
Pushed == Len(drain.pushed["a1"]) + Len(drain.pushed["a2"])

\* Lines 209-223 of _notify_agent_handoff: the notification is pushed onto
\* the head of the agent's list.
notify_agent_handoff_fallback(a, t) ==
    /\ Pushed < MaxPushed
    /\ notifications' = [notifications EXCEPT ![a] = lpush(@, t)]
    /\ drain' = [drain EXCEPT !.pushed[a] = Append(@, t)]
    /\ UNCHANGED <<tasks, queue, nodes, silent, req, claimed, succeeded, handoff_history,
                   delivery, evaluator, node_calls, ops, now, heard, active_handoffs,
                   handoff_call, agent_loop>>

\* Lines 231-233: the call starts with an empty list of notifications.
check_pending_handoffs_start(a) ==
    /\ drain.pc = "idle"
    /\ drain' = [drain EXCEPT !.pc = "rpop", !.agent_id = a, !.notifications = <<>>]
    /\ UNCHANGED <<tasks, queue, nodes, silent, req, claimed, succeeded, handoff_history,
                   notifications, delivery, evaluator, node_calls, ops, now, heard,
                   active_handoffs, handoff_call, agent_loop>>

\* redis rpop: the element at the tail of the list, if any.
rpop(q) == SubSeq(q, 1, Len(q) - 1)

\* Lines 236-247: one turn of the loop.  rpop takes the element at the tail;
\* json.loads gives back what json.dumps was given, and it is appended to
\* the list.  When the list is empty the loop ends and the notifications
\* collected are returned.
check_pending_handoffs_rpop ==
    /\ drain.pc = "rpop"
    /\ LET q == notifications[drain.agent_id]
       IN  IF q = <<>>
           THEN /\ drain' = [drain EXCEPT !.pc = "idle",
                                          !.received[drain.agent_id] = @ \o drain.notifications]
                /\ UNCHANGED notifications
           ELSE /\ notifications' = [notifications EXCEPT ![drain.agent_id] = rpop(q)]
                /\ drain' = [drain EXCEPT !.notifications = Append(@, q[Len(q)])]
    /\ UNCHANGED <<tasks, queue, nodes, silent, req, claimed, succeeded, handoff_history,
                   delivery, evaluator, node_calls, ops, now, heard, active_handoffs,
                   handoff_call, agent_loop>>

\* Lines 249-251: rpop raises (the store cannot be reached); the exception
\* is logged and the call returns [], whatever it had collected.
check_pending_handoffs_except ==
    /\ drain.pc = "rpop"
    /\ drain' = [drain EXCEPT !.pc = "idle", !.notifications = <<>>]
    /\ UNCHANGED <<tasks, queue, nodes, silent, req, claimed, succeeded, handoff_history,
                   notifications, delivery, evaluator, node_calls, ops, now, heard,
                   active_handoffs, handoff_call, agent_loop>>

DrainNext ==
    \/ \E a \in Agents, t \in TaskIds : notify_agent_handoff_fallback(a, t)
    \/ \E a \in Agents : check_pending_handoffs_start(a)
    \/ check_pending_handoffs_rpop
    \/ check_pending_handoffs_except
    \/ \E a \in Agents : heartbeat(a, now)

DrainSpec == Init /\ [][DrainNext]_vars

\* Two hub workers over one registry, three agents online: one worker's
\* initiate_handoff runs statement by statement, and between its statements
\* the other worker serves whole initiate_handoff calls, each from an agent
\* to another one.  The first worker starts calls until a handoff has
\* succeeded.
OverlapInit ==
    /\ tasks = <<[NewTask(DefaultModel, 5) EXCEPT !.status = "running", !.node_id = "a1"]>>
    /\ queue = <<>>
    /\ nodes = [a \in AgentIds |-> Node(a = "a1", {})]
    /\ silent = [a \in AgentIds |-> FALSE]
    /\ req = [a \in AgentIds |-> Idle]
    /\ claimed = <<{"a1"}>>
    /\ succeeded = <<{}>>
    /\ handoff_history = <<>>
    /\ notifications = [a \in AgentIds |-> <<>>]
    /\ delivery = [agent_id |-> None, task_id |-> 0, outcome |-> None]
    /\ agent_capabilities = [a \in AgentIds |-> {}]
    /\ recommendation = NoRecommendation
    /\ node_calls = [a \in AgentIds |-> {"register", "heartbeat"}]
    /\ ops = 0
    /\ now = 1
    /\ heard = [a \in AgentIds |-> [at |-> 1, timestamp |-> 1]]
    /\ active_handoffs = [t \in {} |-> "pending"]
    /\ handoff_call = NoCall
    /\ agent_loop = AgentStart
    /\ drain = NoDrain

OverlapNext ==
    \/ /\ handoff_history = <<>>
       /\ \E t \in TaskIds, from \in Agents : \E to \in AgentIds \ {from} :
              initiate_handoff_start(t, from, to)
    \/ initiate_handoff_notify
    \/ initiate_handoff_update
    \/ initiate_handoff_except
    \/ initiate_handoff_finally
    \/ /\ handoff_call.pc \in {"notify", "update", "finally"}
       /\ \E t \in TaskIds, from \in Agents : \E to \in AgentIds \ {from} :
              initiate_handoff(t, from, to)

OverlapSpec == OverlapInit /\ [][OverlapNext]_vars

\* The evaluator over agent records of every kind: the three agents of the
\* handoff scenario (loads 0.9, 0.1, 0.5), an offline agent, agents at the
\* load and capacity limits, and agents whose score is at the threshold.
Profile(status, load, active, completed, failed) ==
    [status |-> status, active_tasks |-> active, host |-> FALSE, capabilities |-> {},
     current_load |-> load, tasks_completed |-> completed, tasks_failed |-> failed,
     last_heartbeat |-> 1]

Profiles ==
    {Profile("online", 9, 3, 10, 0), Profile("online", 1, 0, 20, 0),
     Profile("online", 5, 2, 5, 5), Profile("offline", 1, 0, 20, 0),
     Profile("online", 7, 0, 20, 0), Profile("online", 6, 2, 0, 0),
     Profile("online", 5, 2, 0, 0), Profile("online", 1, 3, 20, 0)}

Callers == AgentIds \cup {"a4"}

EvalInit ==
    /\ \E m \in Models :
          tasks = <<[NewTask(m, 5) EXCEPT !.status = "running", !.node_id = "a1"]>>
    /\ queue = <<>>
    /\ nodes \in [AgentIds -> Profiles]
    /\ silent = [a \in Agents |-> FALSE]
    /\ req = [a \in AgentIds |-> Idle]
    /\ claimed = <<{"a1"}>>
    /\ succeeded = <<{}>>
    /\ handoff_history = <<>>
    /\ notifications = [a \in Agents |-> <<>>]
    /\ delivery = [agent_id |-> None, task_id |-> 0, outcome |-> None]
    /\ agent_capabilities \in [AgentIds -> {{}, {"m-small"}}]
    /\ recommendation = NoRecommendation
    /\ node_calls = [a \in AgentIds |-> {"register", "heartbeat"}]
    /\ ops = 0
    /\ now = 1
    /\ heard = [a \in AgentIds |-> [at |-> 1, timestamp |-> 1]]
    /\ active_handoffs = [t \in {} |-> "pending"]
    /\ handoff_call = NoCall
    /\ agent_loop = AgentStart
    /\ drain = NoDrain

EvalNext == \E t \in TaskIds, caller \in Callers : evaluate_handoff_candidate(t, caller)

EvalSpec == EvalInit /\ [][EvalNext]_vars

----------------------------------------------------------------------------
(* Properties                                                                *)

Quiescent == \A a \in AgentIds : req[a] = Idle

Reporting(a) == req[a].op \in {"complete", "fail"}

Owned(a) == {t \in DOMAIN tasks : tasks[t].status \in InFlight /\ tasks[t].node_id = a}

\* C1: a task is never returned by ClaimNextTask to two different agents,
\* unless it went back to the pending queue between the two claims (claimed[t]
\* holds the agents whose claim took the task since it was last queued).
C1_NoDoubleClaim == \A t \in DOMAIN claimed : Cardinality(claimed[t]) <= 1

\* Two agents have claimed, each a task of its own.
C1_Witness ==
    \E t, u \in DOMAIN claimed : t # u /\ claimed[t] = {"a1"} /\ claimed[u] = {"a2"}

C4_RunningHasOnlineOwner ==
    Quiescent =>
        \A t \in DOMAIN tasks :
            tasks[t].status \in InFlight
            => tasks[t].node_id \in DOMAIN nodes /\ nodes[tasks[t].node_id].status = "online"

\* C5: between requests, the active_tasks of every online agent is the number
\* of running or assigned tasks it owns.
C5_ActiveTasksCount ==
    Quiescent =>
        \A a \in Agents :
            nodes[a].status = "online" => nodes[a].active_tasks = Cardinality(Owned(a))

\* C6: between requests, the pending queue holds exactly the pending tasks,
\* each once, so that every task is in exactly one of the queue, an agent's
\* active set and the terminal store.
C6_QueueIsPendingTasks ==
    Quiescent =>
        /\ Range(queue) = {t \in DOMAIN tasks : tasks[t].status = "pending"}
        /\ Cardinality(Range(queue)) = Len(queue)
        /\ \A t \in DOMAIN tasks :
              tasks[t].status \in InFlight => tasks[t].node_id \in DOMAIN nodes

\* C7: an online agent whose heartbeat is older than the threshold is
\* eventually offline, and the sweep that takes it offline returns each task
\* it owns to the pending queue with no owner, no result and attempt_count
\* incremented by one.
C7_OrphansReclaimed ==
    /\ \A a \in Agents :
          (nodes[a].status = "online" /\ silent[a]) ~> (nodes[a].status = "offline")
    /\ [][\A a \in Agents :
            nodes[a].status = "online" /\ nodes'[a].status = "offline"
            => /\ silent[a]
               /\ \A t \in Owned(a) :
                     /\ tasks'[t] = [tasks[t] EXCEPT !.status = "pending",
                                                     !.node_id = None,
                                                     !.result = None,
                                                     !.attempt_count = @ + 1]
                     /\ t \in Range(queue')
                     /\ \A b \in Agents :
                           nodes'[b].status = "online" => get_next_task_reply(b)' = "task"]_vars

\* A task reclaimed from an agent that went offline is running on another
\* agent, on its second attempt.
C7_Witness ==
    \E t \in DOMAIN tasks :
        /\ tasks[t].attempt_count = 2
        /\ tasks[t].status = "running"
        /\ tasks[t].node_id = "a2"
        /\ nodes["a1"].status = "offline"
        /\ nodes["a2"].status = "online"

\* C8: a completion report that repeats the stored (agent, task, result) of a
\* completed task returns success, and one with a different result is refused;
\* the stored result stays.
C8_IdempotentCompletion ==
    \A a \in AgentIds :
        req[a].op = "complete" /\ tasks[req[a].task].status = "completed"
                                /\ tasks[req[a].task].node_id = a
        => IF tasks[req[a].task].result = req[a].result
           THEN report_update_reply(a) = "ok"
           ELSE report_update_reply(a) = "update_failed"

C10_ClaimInPriorityOrder ==
    /\ [](\A i, j \in 1..Len(queue) : i < j => Earlier(tasks, queue[i], queue[j]))
    /\ [][\A a \in AgentIds :
            req[a] = Idle /\ req'[a].op = "claim"
            => /\ req'[a].task \in Range(queue)
               /\ \A u \in Range(queue) : ~Earlier(tasks, u, req'[a].task)]_vars

\* Of three tasks of priorities 5, 1, 5 the second is claimed first.
C10_Witness ==
    \E a \in Agents :
        /\ req[a].op = "claim"
        /\ req[a].task = 2
        /\ queue = <<1, 3>>
        /\ tasks[1].priority = 5 /\ tasks[2].priority = 1 /\ tasks[3].priority = 5

C12_RetryOnFailure ==
    [][\A a \in AgentIds :
        LET t == req[a].task
        IN  /\ req[a].op = "fail" /\ req'[a] = Idle
            /\ tasks[t].status \in InFlight /\ tasks[t].node_id = a
            => IF req[a].result \in Transient /\ tasks[t].attempt_count < MaxAttempts
               THEN /\ tasks'[t].status = "pending"
                    /\ tasks'[t].attempt_count = tasks[t].attempt_count + 1
                    /\ tasks'[t].priority = tasks[t].priority
                    /\ t \in Range(queue')
               ELSE /\ tasks'[t].status = "failed"
                    /\ t \notin Range(queue')]_vars
\* The first queued task whose model the agent supports (0 when none).
FirstSupported(a, q) ==
    LET S == {i \in 1..Len(q) : nodes[a].capabilities = {}
                                 \/ tasks[q[i]].model \in nodes[a].capabilities}
    IN  IF S = {} THEN 0 ELSE q[CHOOSE i \in S : \A j \in S : i <= j]

\* C13: a claim gives a capability-declaring agent only a task whose model it
\* declared, and it gives every agent the first queued task it supports.
C13_ClaimByCapability ==
    /\ [](\A a \in Agents :
            req[a].op = "claim"
            => \/ nodes[a].capabilities = {}
               \/ tasks[req[a].task].model \in nodes[a].capabilities)
    /\ [][\A a \in Agents :
            req[a] = Idle /\ req'[a].op = "claim"
            => req'[a].task = FirstSupported(a, queue)]_vars
\* C14: when a claim by agent a returns task t, t is assigned and owned by a
\* and out of the queue, a's active_tasks has grown by one, and no other task
\* or agent record has changed.
C14_ClaimFrame ==
    [][\A a \in Agents :
        LET t == req[a].task
        IN  req[a].op = "claim" /\ req'[a] = Idle
            => /\ tasks'[t].status = "assigned"
               /\ tasks'[t].node_id = a
               /\ t \notin Range(queue')
               /\ nodes'[a].active_tasks = nodes[a].active_tasks + 1
               /\ \A u \in DOMAIN tasks : u # t => tasks'[u] = tasks[u]
               /\ \A b \in Agents : b # a => nodes'[b] = nodes[b]]_vars
\* C15: an agent that has registered and sent a heartbeat is given the queued
\* task when it claims; when the completion report of the agent a claim gave
\* the task to reaches the registry, the task is completed, owned by that
\* agent, with the reported result.
C15_HappyPath ==
    /\ [](\A a \in AgentIds :
            node_calls[a] = {"register", "heartbeat"} /\ queue # <<>>
            => get_next_task_reply(a) = "task")
    /\ [][\A a \in AgentIds :
            LET t == req[a].task
            IN  /\ req[a].op = "complete" /\ req'[a] = Idle
                /\ tasks[t].status \in InFlight /\ tasks[t].node_id = a
                => tasks'[t] = [tasks[t] EXCEPT !.status = "completed",
                                                !.result = req[a].result]]_vars
\* The handoff that a step has just recorded as successful.
Recorded == handoff_history'[Len(handoff_history')]

\* C16: when a handoff returns success, the registry shows the target as the
\* owner of the task.
C16_HandoffSuccessMeansOwner ==
    [][Len(handoff_history') > Len(handoff_history)
       => tasks'[Recorded.task_id].node_id = Recorded.to_agent]_vars

\* C17: a handoff returns success only for a task that is in flight and owned
\* by the agent it is taken from, to a target that is online; otherwise the
\* task's status and owner are unchanged.
C17_HandoffPreconditions ==
    [][/\ Len(handoff_history') > Len(handoff_history)
          => /\ tasks[Recorded.task_id].status \in InFlight
             /\ tasks[Recorded.task_id].node_id = Recorded.from_agent
             /\ NodeKnown(Recorded.to_agent)
             /\ nodes[Recorded.to_agent].status = "online"
       /\ Len(handoff_history') = Len(handoff_history) /\ delivery' # delivery
          => tasks' = tasks]_vars

\* C20: a handoff notification that was not delivered by direct push is in
\* the target agent's notification queue.
C20_NotificationFallback ==
    delivery.outcome \notin {None, "pushed"}
    => \E i \in 1..Len(notifications[delivery.agent_id]) :
          notifications[delivery.agent_id][i] = delivery.task_id
\* C18: the evaluator never recommends the caller, an agent that is not
\* online, or one with current_load >= 0.7 or active_tasks >= 3, and it
\* returns none for an unknown task or an unknown caller.
C18_EligibleOnly ==
    LET r == recommendation.result
    IN  /\ r # None
           => /\ r # recommendation.agent_id
              /\ NodeKnown(r)
              /\ nodes[r].status = "online"
              /\ nodes[r].current_load < 7
              /\ nodes[r].active_tasks < 3
        /\ recommendation.agent_id # None
           /\ (~TaskKnown(recommendation.task_id) \/ ~NodeKnown(recommendation.agent_id))
           => r = None

\* An agent was recommended although the caller itself, online with spare
\* capacity, has a higher score.
C18_Witness ==
    LET r == recommendation.result
        c == recommendation.agent_id
    IN  /\ r # None
        /\ nodes[c].current_load < 7 /\ nodes[c].active_tasks < 3
        /\ nodes[c].status = "online"
        /\ Greater(Score(c, tasks[recommendation.task_id].model),
                   Score(r, tasks[recommendation.task_id].model))

\* The agents of the handoff scenario: a1 loaded, a2 idle and reliable, a3
\* half loaded with five failures in ten, all supporting the task's model.
S5 ==
    /\ nodes["a1"] = Profile("online", 9, 3, 10, 0)
    /\ nodes["a2"] = Profile("online", 1, 0, 20, 0)
    /\ nodes["a3"] = Profile("online", 5, 2, 5, 5)
    /\ \A a \in AgentIds : supports_model(a, tasks[1].model)

\* C19: for a known task and caller the evaluator returns an eligible agent
\* whose score no eligible agent exceeds, if that score is above 50, and none
\* otherwise; in the handoff scenario it recommends a2, whose score is 136.
C19_BestScoreAbove50 ==
    LET r == recommendation.result
        c == recommendation.agent_id
        t == recommendation.task_id
    IN  c # None /\ TaskKnown(t) /\ NodeKnown(c)
        => /\ IF \E a \in Eligible(c) : \A b \in Eligible(c) :
                      /\ ~Greater(Score(b, tasks[t].model), Score(a, tasks[t].model))
                      /\ Exceeds(Score(a, tasks[t].model), 50)
              THEN /\ r \in Eligible(c)
                   /\ Exceeds(Score(r, tasks[t].model), 50)
                   /\ \A b \in Eligible(c) :
                         ~Greater(Score(b, tasks[t].model), Score(r, tasks[t].model))
              ELSE r = None
           /\ S5 /\ c = "a1"
              => /\ r = "a2"
                 /\ Score("a2", tasks[t].model)[1] = 136 * Score("a2", tasks[t].model)[2]

\* The evaluator was asked by a1 in the handoff scenario.
C19_Witness == S5 /\ recommendation.agent_id = "a1" /\ recommendation.task_id = 1
                  /\ recommendation.result = "a2"
\* C21: a heartbeat from a known agent that is offline sets it online and
\* stores the heartbeat's time as its last heartbeat; a heartbeat for an
\* unknown id is answered "unknown agent" and creates no record.
C21_HeartbeatRevives ==
    [][\A a \in AgentIds, ts \in Timestamps :
        heartbeat(a, ts)
        => IF NodeKnown(a)
           THEN nodes[a].status = "offline"
                => /\ nodes'[a].status = "online"
                   /\ ts >= nodes[a].last_heartbeat => nodes'[a].last_heartbeat = ts
           ELSE /\ heartbeat_reply(a) = "unknown_agent"
                /\ DOMAIN nodes' = DOMAIN nodes]_vars

\* C22: the sweep takes an agent offline only if it was online and its stored
\* last heartbeat is older than the threshold; an agent whose last heartbeat
\* the hub answered less than a threshold ago stays online and keeps the
\* tasks it owns.
C22_SweepOnlySilent ==
    [][\A a \in Agents :
        /\ nodes[a].status # "offline" /\ nodes'[a].status = "offline"
           => /\ nodes[a].status = "online"
              /\ now - nodes[a].last_heartbeat > OfflineThreshold
        /\ nodes[a].status = "online" /\ now - heard[a].at < OfflineThreshold
           => /\ nodes'[a].status = "online"
              /\ \A t \in Owned(a) : tasks'[t].node_id = a]_vars

\* C23: the stored last heartbeat of an agent never decreases, and a
\* heartbeat that carries a timestamp older than the stored one changes
\* neither the agent's last heartbeat nor its status.
C23_LastHeartbeatMonotonic ==
    [][\A a \in DOMAIN nodes :
        /\ a \in DOMAIN nodes'
        /\ nodes'[a].last_heartbeat >= nodes[a].last_heartbeat
        /\ \A ts \in Timestamps :
              heartbeat(a, ts) /\ ts < nodes[a].last_heartbeat
              => /\ nodes'[a].last_heartbeat = nodes[a].last_heartbeat
                 /\ nodes'[a].status = nodes[a].status]_vars

\* The hub has answered a heartbeat of a registered agent that carried a
\* timestamp older than the agent's stored last heartbeat.
C23_Witness ==
    \E a \in Agents :
        /\ heard[a].timestamp < nodes[a].last_heartbeat
        /\ heard[a].at >= nodes[a].last_heartbeat
\* C25: a claim for an unknown agent is answered "agent not found" and a
\* claim for an agent that is not online "not online"; the route then takes
\* no step, and no step gives such an agent a task.
C25_ClaimRefused ==
    /\ [](\A a \in AgentIds :
            /\ ~NodeKnown(a) => get_next_task_reply(a) = "agent_not_found"
            /\ NodeKnown(a) /\ nodes[a].status # "online"
               => get_next_task_reply(a) = "not_online"
            /\ ~NodeKnown(a) \/ nodes[a].status # "online"
               => ~ENABLED get_next_task_for_agent(a))
    /\ [][\A a \in AgentIds :
            req[a] = Idle /\ req'[a].op = "claim"
            => NodeKnown(a) /\ nodes[a].status = "online"]_vars

\* A task is queued while one registered agent, with no request in flight,
\* is offline and the other is online.
C25_Witness ==
    /\ queue # <<>>
    /\ ops < MaxOps
    /\ \E a, b \in Agents :
          /\ nodes[a].status = "offline" /\ req[a] = Idle
          /\ nodes[b].status = "online"

\* C26: a claim by an online agent while the queue is empty is answered "no
\* pending tasks", which is not an error, and the route takes no step.
C26_EmptyQueue ==
    \A a \in AgentIds :
        NodeKnown(a) /\ nodes[a].status = "online" /\ queue = <<>>
        => /\ get_next_task_reply(a) = "no_pending_tasks"
           /\ ~ENABLED get_next_task_for_agent(a)

\* The queue is empty after its only task was claimed, and an online agent
\* with no request in flight may ask for the next.
C26_Witness ==
    /\ queue = <<>>
    /\ Len(tasks) = 1
    /\ tasks[1].status = "running"
    /\ ops < MaxOps
    /\ \E a \in Agents : nodes[a].status = "online" /\ req[a] = Idle
\* The ring of handoff statistics holds the most recent 10 000 handoffs; the
\* model scales it to HistoryLimit.
HistoryLimit == 2

\* C27: the handoff history holds at most the most recent HistoryLimit
\* records, and a step either leaves it, appends one record to it, or, when
\* it is full, drops the oldest record and appends one; no record in it is
\* modified.
C27_HistoryBounded ==
    /\ [](Len(handoff_history) <= HistoryLimit)
    /\ [][\/ handoff_history' = handoff_history
          \/ /\ Len(handoff_history') = Len(handoff_history) + 1
             /\ SubSeq(handoff_history', 1, Len(handoff_history)) = handoff_history
          \/ /\ Len(handoff_history) = HistoryLimit
             /\ Len(handoff_history') = HistoryLimit
             /\ SubSeq(handoff_history', 1, HistoryLimit - 1) = Tail(handoff_history)]_vars

\* C29: a handoff notification is dispatched to the target only once the
\* registry shows the target as the owner of the task.
C29_ReassignBeforeNotify ==
    [][delivery' # delivery /\ delivery'.outcome \in {"pushed", "queued"}
       => tasks'[delivery'.task_id].node_id = delivery'.agent_id]_vars

\* C30: the record of a handoff that succeeded is removed from
\* active_handoffs only after its completed record is the last of
\* handoff_history, and once initiate_handoff has returned, with success or
\* without, active_handoffs holds no record for its task.
C30_ActiveRemovedAfterHistory ==
    /\ [][\A t \in DOMAIN active_handoffs :
            t \notin DOMAIN active_handoffs' /\ active_handoffs[t] = "completed"
            => /\ handoff_history' = handoff_history
               /\ Len(handoff_history) > 0
               /\ handoff_history[Len(handoff_history)] = HandoffRecord(handoff_call, "completed")
               /\ handoff_call.task_id = t]_vars
    /\ [](handoff_call.pc = "idle" => handoff_call.task_id \notin DOMAIN active_handoffs)
    /\ [](handoff_call.returned = "true"
          => /\ Len(handoff_history) > 0
             /\ handoff_history[Len(handoff_history)] = HandoffRecord(handoff_call, "completed"))

\* A handoff from a1 to a2 has returned success: its record is in the
\* history and active_handoffs is empty again.
C30_Witness ==
    /\ handoff_call.pc = "idle"
    /\ handoff_call.returned = "true"
    /\ handoff_history = <<HandoffRecord(handoff_call, "completed")>>
    /\ handoff_call.from_agent = "a1" /\ handoff_call.to_agent = "a2"
    /\ DOMAIN active_handoffs = {}
\* C28: register_agent returns True when the POST succeeds and False when
\* the POST raises, and heartbeat returns True when the POST succeeds.
C28_HelpersReturnBooleans ==
    /\ agent_loop.helper = "register_agent" /\ agent_loop.post = "ok"
       => agent_loop.returned = "true"
    /\ agent_loop.helper = "register_agent" /\ agent_loop.post = "raises"
       => agent_loop.returned = "false"
    /\ agent_loop.helper = "heartbeat" /\ agent_loop.post = "ok"
       => agent_loop.returned = "true"
\* C24: while the agents keep asking for work and the sweeps go on, every
\* pending task is eventually claimed, whatever is submitted in the meantime.
C24_NoStarvation ==
    \A t \in TaskIds :
        (TaskKnown(t) /\ tasks[t].status = "pending")
        ~> (TaskKnown(t) /\ tasks[t].status = "running")

\* A task of priority 2 that the sweeps made as urgent as priority 0 has been
\* claimed while a task submitted later with priority 0 is still queued.
C24_Witness ==
    \E t, u \in DOMAIN tasks :
        /\ t < u
        /\ tasks[t].priority = 2 /\ tasks[t].effective_priority = 0
        /\ tasks[t].status = "running"
        /\ tasks[u].priority = 0 /\ tasks[u].status = "pending"
\* C31: once a cancel has succeeded for a pending task, no claim hands the
\* task to an agent, not even one that had already taken it from the queue,
\* and no step moves the task's status away from cancelled.
C31_CancelClaimRace ==
    /\ [](\A a \in AgentIds :
            req[a].op = "claim" /\ TaskKnown(req[a].task)
                                /\ tasks[req[a].task].status = "cancelled"
            => get_next_task_assign_reply(a) # "task")
    /\ [][\A t \in DOMAIN tasks :
            tasks[t].status = "cancelled" => tasks'[t].status = "cancelled"]_vars
\* C32: a completion or failure report by an agent that no longer owns the
\* task (the task was reclaimed, or claimed by or handed off to another
\* agent) is answered "not assigned", and a report that reaches the registry
\* when its sender is not the owner leaves the task as it is.
C32_LateReportRejected ==
    /\ [](\A a \in AgentIds, t \in DOMAIN tasks :
            tasks[t].node_id # a => report_reply(a, t) = "not_assigned")
    /\ [][\A a \in AgentIds :
            /\ Reporting(a) /\ req'[a] = Idle
            /\ tasks[req[a].task].node_id # a
            => tasks'[req[a].task] = tasks[req[a].task]]_vars
\* C33: of two initiate_handoff calls for the same task that overlap and name
\* different targets, at most one returns success, and afterwards the task's
\* owner is the target of the successful call.  Under OverlapSpec
\* handoff_history is empty when the statement-by-statement call starts, so
\* every record in it was appended by a call that overlaps it: the call does
\* not succeed once an overlapping call for another target has, none succeeds
\* for another target after it has, and when it returns successfully its
\* target owns the task.
C33_OneHandoffWins ==
    /\ [][handoff_call.pc = "update" /\ handoff_call'.returned = "true"
            => \A i \in DOMAIN handoff_history :
                  handoff_history[i].task_id = handoff_call.task_id
                  => handoff_history[i].to_agent = handoff_call.to_agent]_vars
    /\ [][/\ handoff_call.pc = "finally" /\ handoff_call.returned = "true"
          /\ Len(handoff_history') > Len(handoff_history)
          => \/ handoff_history'[Len(handoff_history')].task_id # handoff_call.task_id
             \/ handoff_history'[Len(handoff_history')].to_agent = handoff_call.to_agent]_vars
    /\ [][/\ handoff_call.pc = "finally" /\ handoff_call.returned = "true"
          /\ handoff_call'.pc = "idle"
          => tasks'[handoff_call.task_id].node_id = handoff_call.to_agent]_vars
\* C34: a call of initiate_handoff that returns failure (task not found,
\* target not online, notification failed, or an exception) leaves the task's
\* status and owner as they were: every statement of a call that has not
\* returned success leaves the task table unchanged, so a call that ends in
\* failure has changed nothing.
C34_FailedHandoffFrame ==
    [][handoff_call' # handoff_call /\ handoff_call'.returned # "true"
        => tasks' = tasks]_vars

\* A handoff of task 1 from a1 whose notification was refused has returned
\* failure, and a1 still runs the task.
C34_Witness ==
    /\ handoff_call.pc = "idle" /\ handoff_call.returned = "false"
    /\ handoff_call.task_id = 1 /\ handoff_call.from_agent = "a1"
    /\ delivery.outcome = "refused" /\ delivery.task_id = 1
    /\ tasks[1].status = "running" /\ tasks[1].node_id = "a1"
RECURSIVE Reverse(_)
Reverse(q) == IF q = <<>> THEN <<>> ELSE Append(Reverse(Tail(q)), Head(q))

\* What a check_pending_handoffs call for agent a has collected so far.
Collected(a) == IF drain.pc = "rpop" /\ drain.agent_id = a THEN drain.notifications ELSE <<>>

\* C35: every notification pushed for an agent is delivered to it exactly
\* once and in the order pushed, by its next heartbeat or check_pending_handoffs
\* drain, also when a push falls between the commands of a drain.  What has
\* been pushed for an agent is always what has been returned to it, then what
\* a drain in progress holds, then its list from tail to head; and when the
\* hub has answered a heartbeat of the agent, everything pushed for it has
\* been returned to it.
C35_NotificationsDelivered ==
    /\ [](\A a \in Agents :
            drain.pushed[a] = drain.received[a] \o Collected(a) \o Reverse(notifications[a]))
    /\ [][\A a \in Agents :
            heartbeat(a, now) => drain'.received[a] = drain'.pushed[a]]_vars
\* C36: every record in handoff_history has status completed: only a call
\* that returns success appends one, a call that fails or raises appends
\* none; so whenever there is a record, get_handoff_stats reports as many
\* successful handoffs as handoffs, a success rate of 100.00.
C36_HistoryAllCompleted ==
    /\ [](\A i \in DOMAIN handoff_history : handoff_history[i].status = "completed")
    /\ [](Len(handoff_history) > 0
            => /\ get_handoff_stats.successful_handoffs = get_handoff_stats.total_handoffs
               /\ get_handoff_stats.success_rate = 10000)
    /\ [][handoff_history' # handoff_history
            => /\ handoff_call'.returned = "true"
               /\ handoff_history' =
                     Append(handoff_history, HandoffRecord(handoff_call, "completed"))]_vars

\* One handoff has succeeded and a later call, whose notification was
\* refused, has returned failure: the history holds the one record.
C36_Witness ==
    /\ Len(handoff_history) = 1
    /\ handoff_call.pc = "idle" /\ handoff_call.returned = "false"
    /\ delivery.outcome = "refused"
    /\ get_handoff_stats.total_handoffs = 1
C39_FailureCounter ==
    /\ [][main_loop_heartbeat("ok") => agent_loop'.consecutive_failures = 0]_vars
    /\ [][agent_loop.pc # "reregister" /\ agent_loop'.pc = "reregister"
            => /\ agent_loop.consecutive_failures = max_consecutive_failures - 1
               /\ agent_loop'.consecutive_failures = max_consecutive_failures]_vars
    /\ [][agent_loop.pc = "reregister" /\ agent_loop'.pc \notin {"reregister", "stopped"}
            => agent_loop'.consecutive_failures = 0]_vars
    /\ [](agent_loop.pc = "sleep"
            => agent_loop.consecutive_failures \in 0..(max_consecutive_failures - 1))
\* C40: at start-up main_loop makes at most 3 registration attempts, makes no
\* further attempt after one that succeeded, and goes on to the heartbeat
\* loop whether or not an attempt succeeded: the registration phase never
\* ends main_loop.
C40_RegistrationPhase ==
    /\ [](agent_loop.attempt \in 0..(max_retries - 1))
    /\ [][main_loop_register("ok") => agent_loop'.pc = "heartbeat"]_vars
    /\ [][agent_loop.pc = "register" /\ agent_loop'.pc # "register"
            => agent_loop'.pc = "heartbeat"]_vars
====
